---- MODULE Spec2Model ----
(***************************************************************************)
(* A model of folding_stats_recorder.py: the record locator                *)
(* (find_specific_user_data), the history appender                         *)
(* (record_user_data_to_csv) and the click driver                          *)
(* (record_folding_at_home_stats with its option callbacks).               *)
(*                                                                         *)
(* Text is modelled as a sequence of one-character strings, so that        *)
(* str.split, the csv writer and the line structure of the history file    *)
(* are computed rather than assumed.                                       *)
(***************************************************************************)
EXTENDS Integers, Sequences, FiniteSets, TLC

(***************************************************************************)
(* Bounds of the model.                                                    *)
(***************************************************************************)
\* longest dataset handed to find_specific_user_data
MaxRows == 4
\* most record lines after the two leading lines of a fetched dataset
MaxServedRows == 2
\* most calls of record_user_data_to_csv (direct or through the driver)
MaxCalls == 3
\* most clock ticks
MaxTicks == 2

(***************************************************************************)
(* Text helpers.                                                           *)
(***************************************************************************)
\* the characters str.split(None) treats as separators that can occur in a
\* line produced by splitlines()
Whitespace == {" ", "\t"}

IsPrefix(s, t) == Len(s) <= Len(t) /\ SubSeq(t, 1, Len(s)) = s

\* s with its leading whitespace run removed
RECURSIVE lstrip(_)
lstrip(s) ==
  IF s = <<>> THEN <<>>
  ELSE IF Head(s) \in Whitespace THEN lstrip(Tail(s)) ELSE s

\* the longest whitespace-free prefix of s
RECURSIVE take_token(_)
take_token(s) ==
  IF s = <<>> \/ Head(s) \in Whitespace THEN <<>>
  ELSE <<Head(s)>> \o take_token(Tail(s))

\* s.split(): the maximal whitespace-free runs of s, in order
RECURSIVE split(_)
split(s) ==
  LET t == lstrip(s) IN
  IF t = <<>> THEN <<>>
  ELSE LET tok == take_token(t) IN
       <<tok>> \o split(SubSeq(t, Len(tok) + 1, Len(t)))

\* s.split(None, 1): at most one split; the remainder keeps its own
\* trailing whitespace and is dropped when empty
split_1(s) ==
  LET t == lstrip(s) IN
  IF t = <<>> THEN <<>>
  ELSE LET tok == take_token(t)
           rest == lstrip(SubSeq(t, Len(tok) + 1, Len(t)))
       IN IF rest = <<>> THEN <<tok>> ELSE <<tok, rest>>

(***************************************************************************)
(* find_specific_user_data                                                 *)
(***************************************************************************)
\* collections.namedtuple('user_data_tuple', [...]) applied to *tokens:
\* exactly four positional arguments or a TypeError
user_data_tuple(tokens) ==
  IF Len(tokens) = 4
  THEN [kind |-> "ok",
        value |-> [username |-> tokens[1], new_credits |-> tokens[2],
                   sum_workunits |-> tokens[3], team_num |-> tokens[4]]]
  ELSE [kind |-> "TypeError"]

\* user_data_rows[2:]
rows_after_header(user_data_rows) ==
  SubSeq(user_data_rows, 3, Len(user_data_rows))

\* the for loop of find_specific_user_data over the remaining rows
RECURSIVE scan_rows(_, _)
scan_rows(rows, target_name) ==
  IF rows = <<>> THEN [kind |-> "BadParameter"]
  ELSE LET parts == split_1(Head(rows)) IN
       IF parts = <<>> THEN [kind |-> "IndexError"]
       ELSE IF parts[1] = target_name THEN user_data_tuple(split(Head(rows)))
       ELSE scan_rows(Tail(rows), target_name)

find_specific_user_data(user_data_rows, target_name) ==
  scan_rows(rows_after_header(user_data_rows), target_name)

(***************************************************************************)
(* The csv writer (Python 2 csv module, default "excel" dialect).          *)
(***************************************************************************)
\* user_data._fields of the namedtuple built by find_specific_user_data
user_data_fields == <<"username", "new_credits", "sum_workunits", "team_num">>

\* fieldnames = ['time'] + list(user_data._fields)
fieldnames_swapped == user_data_fields \o <<"time">>
fieldnames == <<"time">> \o user_data_fields

\* the spelling of each field name
FieldText ==
  [time |-> <<"t", "i", "m", "e">>,
   username |-> <<"u", "s", "e", "r", "n", "a", "m", "e">>,
   new_credits |-> <<"n", "e", "w", "_", "c", "r", "e", "d", "i", "t", "s">>,
   sum_workunits |-> <<"s", "u", "m", "_", "w", "o", "r", "k", "u", "n", "i", "t", "s">>,
   team_num |-> <<"t", "e", "a", "m", "_", "n", "u", "m">>]

\* excel dialect: delimiter, quotechar, lineterminator
Delimiter == ","
QuoteChar == "\""
LineTerminator == <<"\r", "\n">>

\* QUOTE_MINIMAL: a field is quoted when it holds the delimiter, the quote
\* character or a character of the line terminator
needs_quotes(f) ==
  \E i \in 1..Len(f) : f[i] \in {Delimiter, QuoteChar, "\r", "\n"}

\* doublequote=True: every quote character inside a quoted field is doubled
RECURSIVE double_quotes(_)
double_quotes(f) ==
  IF f = <<>> THEN <<>>
  ELSE (IF Head(f) = QuoteChar THEN <<QuoteChar, QuoteChar>> ELSE <<Head(f)>>)
       \o double_quotes(Tail(f))

csv_field(f) ==
  IF needs_quotes(f) THEN <<QuoteChar>> \o double_quotes(f) \o <<QuoteChar>>
  ELSE f

\* csv.writer.writerow: the fields joined by the delimiter, then the
\* line terminator
RECURSIVE csv_join(_)
csv_join(fields) ==
  IF fields = <<>> THEN <<>>
  ELSE IF Len(fields) = 1 THEN csv_field(fields[1])
  ELSE csv_field(Head(fields)) \o <<Delimiter>> \o csv_join(Tail(fields))

csv_writerow(fields) == csv_join(fields) \o LineTerminator

\* DictWriter.writeheader: the field names, in fieldnames order
DictWriter_writeheader ==
  csv_writerow([i \in 1..Len(fieldnames) |-> FieldText[fieldnames[i]]])

\* DictWriter.writerow: the dict's values, in fieldnames order
DictWriter_writerow(row_dict) ==
  csv_writerow([i \in 1..Len(fieldnames) |-> row_dict[fieldnames[i]]])

(***************************************************************************)
(* The clock and datetime.now().strftime('%m/%d/%Y %H:%M').                *)
(***************************************************************************)
\* the clock counts half minutes; at tick 0 it is 01/14/2016 12:01:00
BaseHour == 12
BaseMinute == 1

Digit(n) == <<"0", "1", "2", "3", "4", "5", "6", "7", "8", "9">>[n + 1]
TwoDigits(n) == <<Digit((n \div 10) % 10), Digit(n % 10)>>

\* minute resolution: the seconds are dropped
strftime(ticks) ==
  LET minutes == BaseHour * 60 + BaseMinute + ticks \div 2 IN
  <<"0", "1", "/", "1", "4", "/", "2", "0", "1", "6">> \o <<" ">>
    \o TwoDigits((minutes \div 60) % 24) \o <<":">>
    \o TwoDigits(minutes % 60)

(***************************************************************************)
(* The destination path.  fs is what the file system holds at record_loc:  *)
(*   kind      "absent", "file" or "dir"                                   *)
(*   perm      the access the process has to an existing entry             *)
(*   parent_ok the parent directory exists and is writable                 *)
(*   content   the bytes of a regular file                                 *)
(***************************************************************************)
Perms == SUBSET {"r", "w"}

os_path_isfile(f) == f.kind = "file"

\* os.access(path, os.W_OK): false for a path that does not exist
os_access_W_OK(f) == f.kind # "absent" /\ "w" \in f.perm

\* whether open(record_loc, 'a+b' or 'w+b') succeeds: both modes open for
\* reading and writing and create a missing file
can_open(f) ==
  CASE f.kind = "file" -> {"r", "w"} \subseteq f.perm
    [] f.kind = "dir" -> FALSE
    [] OTHER -> f.parent_ok

\* the file system after a successful open: 'w' truncates, 'a' does not
open_effect(f, mode) ==
  [kind |-> "file",
   perm |-> IF f.kind = "absent" THEN {"r", "w"} ELSE f.perm,
   parent_ok |-> f.parent_ok,
   content |-> IF mode = "w+b" THEN <<>> ELSE f.content]

\* a write through a handle opened in either mode lands at the end
write_effect(f, bytes) == [f EXCEPT !.content = @ \o bytes]

(***************************************************************************)
(* record_user_data_to_csv                                                 *)
(***************************************************************************)
\* the dict handed to writerow
user_data_row_dict(user_data, ticks) ==
  [time |-> strftime(ticks),
   username |-> user_data.username,
   new_credits |-> user_data.new_credits,
   sum_workunits |-> user_data.sum_workunits,
   team_num |-> user_data.team_num]

\* the mode of the branch taken
open_mode_always_w(isfile) == "w+b"
open_mode(isfile) == IF isfile THEN "a+b" ELSE "w+b"

\* the writer calls of the branch taken, in order
writer_calls_always_header(isfile) == <<"writeheader", "writerow">>
writer_calls_two_rows(isfile) ==
  IF isfile THEN <<"writerow", "writerow">> ELSE <<"writeheader", "writerow">>
writer_calls(isfile) ==
  IF isfile THEN <<"writerow">> ELSE <<"writeheader", "writerow">>

\* the bytes a sequence of writer calls emits
RECURSIVE emitted(_, _)
emitted(calls, row_dict) ==
  IF calls = <<>> THEN <<>>
  ELSE (IF Head(calls) = "writeheader" THEN DictWriter_writeheader
        ELSE DictWriter_writerow(row_dict))
       \o emitted(Tail(calls), row_dict)

\* the with statement's exit: the handle is closed
with_exit_leaks(handles) == handles
with_exit(handles) == handles - 1

\* open is called once in the branch taken; its IOError is not caught
open_attempts(f) == 1

\* The whole call: the file system after it and what it did.
record_user_data_to_csv(user_data, f, ticks) ==
  LET isfile == os_path_isfile(f)
      mode == open_mode(isfile)
      calls == writer_calls(isfile)
  IN IF can_open(f)
     THEN [outcome |-> "ok",
           fs |-> write_effect(open_effect(f, mode),
                               emitted(calls, user_data_row_dict(user_data, ticks))),
           mode |-> mode,
           writer_calls |-> calls,
           opens |-> open_attempts(f),
           handles |-> with_exit(1)]
     ELSE [outcome |-> "IOError",
           fs |-> f,
           mode |-> mode,
           writer_calls |-> <<>>,
           opens |-> open_attempts(f),
           handles |-> 0]

(***************************************************************************)
(* Inputs.                                                                 *)
(***************************************************************************)
\* lines a dataset handed to find_specific_user_data is built from
DatasetLines ==
  {<<>>,
   <<" ">>,
   <<"b", "o", "b", " ", "2", " ", "1", " ", "0">>,
   <<" ", "b", "o", "b", "\t", "7", " ", "3", " ", "0", " ">>,
   <<"b", "o", "b", "o", " ", "5", " ", "1", " ", "0">>,
   <<"B", "o", "b", " ", "6", " ", "1", " ", "0">>,
   <<"a", "l", " ", "4", " ", "1", " ", "0">>,
   <<"b", "o", "b", " ", "2", " ", "1">>}

Targets == {<<"b", "o", "b">>, <<"a", "l">>}

\* every sequence over S of length 0..n
RECURSIVE SeqsUpTo(_, _)
SeqsUpTo(S, n) ==
  IF n = 0 THEN {<<>>}
  ELSE LET shorter == SeqsUpTo(S, n - 1) IN
       shorter \cup {Append(q, x) : q \in shorter, x \in S}

Datasets == SeqsUpTo(DatasetLines, MaxRows)

\* what the F@H server may serve: the date line, the column header and
\* record lines; or nothing at all
DateLine == <<"T", "h", "u", " ", "J", "a", "n", " ", "1", "4", " ", "1", "2", ":", "0", "0", ":", "0", "0", " ", "P", "S", "T", " ", "2", "0", "1", "6">>
HeaderLine == <<"n", "a", "m", "e", "\t", "n", "e", "w", "c", "r", "e", "d", "i", "t", "\t", "s", "u", "m", "(", "t", "o", "t", "a", "l", ")", "\t", "t", "e", "a", "m">>
ServedLines == {<<"b", "o", "b", " ", "2", " ", "1", " ", "0">>, <<"a", "l", " ", "4", " ", "1", " ", "0">>, <<>>}
ServedDatasets ==
  {<<>>} \cup {<<DateLine, HeaderLine>> \o body :
                 body \in SeqsUpTo(ServedLines, MaxServedRows)}

\* values of --username: not given, a donor of the served data, a stranger
Usernames == {<<>>, <<"b", "o", "b">>, <<"z", "e", "d">>}

\* records handed to record_user_data_to_csv directly
PlainRecord ==
  [username |-> <<"b", "o", "b">>, new_credits |-> <<"2">>,
   sum_workunits |-> <<"1">>, team_num |-> <<"0">>]
QuotedRecord ==
  [username |-> <<"a", ",", "\"", "b">>, new_credits |-> <<"2">>,
   sum_workunits |-> <<"1">>, team_num |-> <<"0">>]
DirectRecords == {PlainRecord, QuotedRecord}

NoRecord ==
  [username |-> <<>>, new_credits |-> <<>>,
   sum_workunits |-> <<>>, team_num |-> <<>>]

\* the destination before the first call: nothing there, an empty regular
\* file, or a directory
InitialFs ==
  {[kind |-> "absent", perm |-> {}, parent_ok |-> ok, content |-> <<>>] :
     ok \in BOOLEAN}
  \cup {[kind |-> k, perm |-> p, parent_ok |-> TRUE, content |-> <<>>] :
          k \in {"file", "dir"}, p \in Perms}

(***************************************************************************)
(* State.                                                                  *)
(***************************************************************************)
VARIABLES
  fs,               \* the destination path on disk
  now,              \* the wall clock, in half minutes
  open_handles,     \* file handles the process holds
  ncalls,           \* calls of record_user_data_to_csv so far
  init_fs,          \* history: fs before the first call
  written,          \* history: the successful calls, in call order
  last,             \* history: the latest call of record_user_data_to_csv
  pc,               \* where a run of record_folding_at_home_stats stands
  username,         \* the run's --username
  all_user_data,    \* the run's decompressed dataset
  target_user_data, \* the run's located record
  run,              \* history: the current or latest run
  user_data_rows,   \* input of a direct find_specific_user_data call
  target_name,      \* input of a direct find_specific_user_data call
  find_result       \* its outcome

vars ==
  <<fs, now, open_handles, ncalls, init_fs, written, last, pc, username,
    all_user_data, target_user_data, run, user_data_rows, target_name,
    find_result>>

file_vars == <<fs, now, open_handles, ncalls, init_fs, written, last>>
run_vars == <<pc, username, all_user_data, target_user_data, run>>
find_vars == <<user_data_rows, target_name, find_result>>

NoCall ==
  [outcome |-> "none", via |-> "none", before |-> CHOOSE f \in InitialFs : TRUE,
   user_data |-> NoRecord, ticks |-> 0, mode |-> "none",
   writer_calls |-> <<>>, opens |-> 0]

NoRun ==
  [state |-> "none", username |-> <<>>,
   start_fs |-> CHOOSE f \in InitialFs : TRUE,
   outcome |-> "none", found |-> NoRecord]

Init ==
  /\ fs \in InitialFs
  /\ init_fs = fs
  /\ now = 0
  /\ open_handles = 0
  /\ ncalls = 0
  /\ written = <<>>
  /\ last = NoCall
  /\ pc = "idle"
  /\ username = <<>>
  /\ all_user_data = <<>>
  /\ target_user_data = NoRecord
  /\ run = NoRun
  /\ user_data_rows = <<>>
  /\ target_name = <<>>
  /\ find_result = [kind |-> "pending"]

(***************************************************************************)
(* Actions.                                                                *)
(***************************************************************************)
\* the state change of one record_user_data_to_csv call
DoRecord(user_data, via) ==
  LET res == record_user_data_to_csv(user_data, fs, now) IN
  /\ fs' = res.fs
  /\ open_handles' = open_handles + res.handles
  /\ ncalls' = ncalls + 1
  /\ written' = IF res.outcome = "ok"
                THEN Append(written, [ticks |-> now, user_data |-> user_data])
                ELSE written
  /\ last' = [outcome |-> res.outcome, via |-> via, before |-> fs,
              user_data |-> user_data, ticks |-> now, mode |-> res.mode,
              writer_calls |-> res.writer_calls, opens |-> res.opens]
  /\ UNCHANGED <<now, init_fs>>

\* record_user_data_to_csv called on its own
AppendCall ==
  /\ pc = "idle"
  /\ ncalls < MaxCalls
  /\ \E user_data \in DirectRecords : DoRecord(user_data, "direct")
  /\ UNCHANGED run_vars
  /\ UNCHANGED find_vars

\* time passes
Tick ==
  /\ now < MaxTicks
  /\ now' = now + 1
  /\ UNCHANGED <<fs, open_handles, ncalls, init_fs, written, last>>
  /\ UNCHANGED run_vars
  /\ UNCHANGED find_vars

(***************************************************************************)
(* The driver: record_folding_at_home_stats behind its click options.      *)
(***************************************************************************)
\* validate_record_location: the path must pass os.access(value, os.W_OK)
validate_record_location(f) == os_access_W_OK(f)

\* validate_fah_username: the value must be truthy
validate_fah_username(value) == value # <<>>

\* username.encode('utf8'); the model's usernames are ASCII
encode_utf8(value) == value

\* where a run goes after find_specific_user_data
pc_after_find(kind) == IF kind = "ok" THEN "record" ELSE "idle"

EndRun(outcome) ==
  /\ pc' = "idle"
  /\ username' = <<>>
  /\ all_user_data' = <<>>
  /\ target_user_data' = NoRecord
  /\ run' = [run EXCEPT !.state = "ended", !.outcome = outcome]

\* click parses the options and runs their callbacks before the body
StartRun ==
  /\ pc = "idle"
  /\ ncalls < MaxCalls
  /\ \E u \in Usernames :
       LET started == [state |-> "running", username |-> u, start_fs |-> fs,
                       outcome |-> "none", found |-> NoRecord]
       IN \/ /\ ~validate_record_location(fs)
             /\ run' = [started EXCEPT !.state = "ended",
                                       !.outcome = "BadParameter:record_location"]
             /\ UNCHANGED <<pc, username>>
          \/ /\ validate_record_location(fs)
             /\ ~validate_fah_username(u)
             /\ run' = [started EXCEPT !.state = "ended",
                                       !.outcome = "BadParameter:username"]
             /\ UNCHANGED <<pc, username>>
          \/ /\ validate_record_location(fs)
             /\ validate_fah_username(u)
             /\ run' = started
             /\ pc' = "retrieve"
             /\ username' = u
  /\ UNCHANGED <<all_user_data, target_user_data>>
  /\ UNCHANGED file_vars
  /\ UNCHANGED find_vars

\* decompress_userdata_to_list(retrieve_user_data_file(userdata_location)):
\* the request or the decompression fails, or the lines arrive
Retrieve ==
  /\ pc = "retrieve"
  /\ \/ EndRun("FetchError")
     \/ /\ all_user_data' \in ServedDatasets
        /\ pc' = "find"
        /\ UNCHANGED <<username, target_user_data, run>>
  /\ UNCHANGED file_vars
  /\ UNCHANGED find_vars

\* find_specific_user_data(all_user_data, username.encode('utf8'))
Find ==
  /\ pc = "find"
  /\ LET res == find_specific_user_data(all_user_data, encode_utf8(username)) IN
     IF pc_after_find(res.kind) = "record"
     THEN /\ target_user_data' = res.value
          /\ run' = [run EXCEPT !.found = res.value]
          /\ pc' = "record"
          /\ all_user_data' = <<>>
          /\ UNCHANGED username
     ELSE EndRun(res.kind)
  /\ UNCHANGED file_vars
  /\ UNCHANGED find_vars

\* record_user_data_to_csv(target_user_data, record_location)
Record ==
  /\ pc = "record"
  /\ DoRecord(target_user_data, "driver")
  /\ EndRun(last'.outcome)
  /\ UNCHANGED find_vars

Next == AppendCall \/ Tick \/ StartRun \/ Retrieve \/ Find \/ Record

Spec == Init /\ [][Next]_vars

(***************************************************************************)
(* find_specific_user_data on its own, over every bounded dataset.         *)
(***************************************************************************)
InitFind ==
  /\ user_data_rows \in Datasets
  /\ target_name \in Targets
  /\ find_result = [kind |-> "pending"]
  /\ fs = CHOOSE f \in InitialFs : TRUE
  /\ init_fs = fs
  /\ now = 0
  /\ open_handles = 0
  /\ ncalls = 0
  /\ written = <<>>
  /\ last = NoCall
  /\ pc = "idle"
  /\ username = <<>>
  /\ all_user_data = <<>>
  /\ target_user_data = NoRecord
  /\ run = NoRun

FindCall ==
  /\ find_result.kind = "pending"
  /\ find_result' = find_specific_user_data(user_data_rows, target_name)
  /\ UNCHANGED <<user_data_rows, target_name>>
  /\ UNCHANGED file_vars
  /\ UNCHANGED run_vars

NextFind == FindCall

SpecFind == InitFind /\ [][NextFind]_vars

(***************************************************************************)
(* Reading the history file back.                                          *)
(***************************************************************************)
\* the header line as the file format fixes it
HeaderText == <<"t", "i", "m", "e", ",", "u", "s", "e", "r", "n", "a", "m", "e", ",", "n", "e", "w", "_", "c", "r", "e", "d", "i", "t", "s", ",", "s", "u", "m", "_", "w", "o", "r", "k", "u", "n", "i", "t", "s", ",", "t", "e", "a", "m", "_", "n", "u", "m">>

\* the least element of a non-empty set of numbers
Least(S) == CHOOSE i \in S : \A j \in S : i <= j

\* the lines of a file, each ended by "\r\n"; an unterminated tail is a line
RECURSIVE FileLines(_)
FileLines(bytes) ==
  LET ends == {i \in 1..(Len(bytes) - 1) : bytes[i] = "\r" /\ bytes[i + 1] = "\n"} IN
  IF bytes = <<>> THEN <<>>
  ELSE IF ends = {} THEN <<bytes>>
  ELSE <<SubSeq(bytes, 1, Least(ends) - 1)>>
       \o FileLines(SubSeq(bytes, Least(ends) + 2, Len(bytes)))

\* line.split(',')
RECURSIVE SplitComma(_)
SplitComma(line) ==
  LET commas == {i \in 1..Len(line) : line[i] = ","} IN
  IF commas = {} THEN <<line>>
  ELSE <<SubSeq(line, 1, Least(commas) - 1)>>
       \o SplitComma(SubSeq(line, Least(commas) + 1, Len(line)))

\* a csv reader's fields of one line: commas inside quotes do not split,
\* a doubled quote inside quotes is one quote
RECURSIVE CsvReadFrom(_, _, _)
CsvReadFrom(line, field, quoted) ==
  IF line = <<>> THEN <<field>>
  ELSE IF quoted
  THEN IF Head(line) = "\""
       THEN IF Len(line) >= 2 /\ line[2] = "\""
            THEN CsvReadFrom(SubSeq(line, 3, Len(line)), Append(field, "\""), TRUE)
            ELSE CsvReadFrom(Tail(line), field, FALSE)
       ELSE CsvReadFrom(Tail(line), Append(field, Head(line)), TRUE)
  ELSE IF Head(line) = "\"" THEN CsvReadFrom(Tail(line), field, TRUE)
  ELSE IF Head(line) = "," THEN <<field>> \o CsvReadFrom(Tail(line), <<>>, FALSE)
  ELSE CsvReadFrom(Tail(line), Append(field, Head(line)), FALSE)

CsvRead(line) == CsvReadFrom(line, <<>>, FALSE)

\* the five values of a history row, in the order the format fixes
RowValues(ticks, user_data) ==
  <<strftime(ticks), user_data.username, user_data.new_credits,
    user_data.sum_workunits, user_data.team_num>>

\* a field value a plain comma split gives back
IsPlain(f) == \A i \in 1..Len(f) : f[i] \notin {",", "\"", "\r", "\n"}

IsPlainRecord(user_data) ==
  /\ IsPlain(user_data.username)
  /\ IsPlain(user_data.new_credits)
  /\ IsPlain(user_data.sum_workunits)
  /\ IsPlain(user_data.team_num)

\* a line that is one history row: five fields, not the header
IsDataRow(line) == line # HeaderText /\ Len(CsvRead(line)) = 5

\* the lines of a file that are not the header
RECURSIVE DataRows(_)
DataRows(lines) ==
  IF lines = <<>> THEN <<>>
  ELSE (IF Head(lines) = HeaderText THEN <<>> ELSE <<Head(lines)>>)
       \o DataRows(Tail(lines))

LastOf(s) == s[Len(s)]

(***************************************************************************)
(* Properties of record_user_data_to_csv.                                  *)
(***************************************************************************)
\* C1: starting from a destination that is absent or an empty file, the
\* file, whenever non-empty, has the header as its first line and every
\* later line is a data row; an append to an existing empty file writes the
\* header first.
C1_HeaderFirst ==
  (init_fs.kind \in {"absent", "file"} /\ fs.kind = "file" /\ fs.content # <<>>)
    => LET lines == FileLines(fs.content) IN
       /\ lines[1] = HeaderText
       /\ \A i \in 2..Len(lines) : IsDataRow(lines[i])

\* C2: N >= 1 successful calls on a path that did not exist leave exactly
\* the header line followed by the N data lines in call order, equal rows
\* included.
C2_HeaderThenRows ==
  (init_fs.kind = "absent" /\ written # <<>>)
    => /\ Len(written) = ncalls
       /\ FileLines(fs.content) =
            <<HeaderText>>
            \o [i \in 1..Len(written) |->
                  csv_join(RowValues(written[i].ticks, written[i].user_data))]

\* the file holds three lines after two calls with the same record in the
\* same minute
C2_Witness ==
  /\ init_fs.kind = "absent"
  /\ Len(written) = 2
  /\ written[1].user_data = written[2].user_data
  /\ strftime(written[1].ticks) = strftime(written[2].ticks)
  /\ Len(FileLines(fs.content)) = 3

\* C3: a call on an existing non-empty file writes no header, calls the
\* row writer once and leaves the old content as a prefix, followed by the
\* one new row.
C3_AppendOnly ==
  (last.outcome = "ok" /\ last.before.kind = "file" /\ last.before.content # <<>>)
    => /\ \A i \in 1..Len(last.writer_calls) : last.writer_calls[i] # "writeheader"
       /\ Cardinality({i \in 1..Len(last.writer_calls) :
                         last.writer_calls[i] = "writerow"}) = 1
       /\ IsPrefix(last.before.content, fs.content)
       /\ fs.content = last.before.content
                       \o csv_join(RowValues(last.ticks, last.user_data))
                       \o <<"\r", "\n">>

\* a run of the driver has appended to a file that held rows already
C3_Witness ==
  /\ last.outcome = "ok"
  /\ last.via = "driver"
  /\ last.before.kind = "file"
  /\ Len(FileLines(last.before.content)) >= 2

\* C9: a call whose destination cannot be opened (no permission, missing
\* parent directory, not a regular file) ends in the IOError after one
\* open, with nothing written; and no call, failed or not, leaves a handle
\* open.
CannotOpen(f) ==
  \/ f.kind = "dir"
  \/ f.kind = "file" /\ f.perm # {"r", "w"}
  \/ f.kind = "absent" /\ ~f.parent_ok

C10_RoundTrip ==
  (last.outcome = "ok")
    => LET line == LastOf(FileLines(fs.content))
           want == RowValues(last.ticks, last.user_data)
       IN /\ CsvRead(line) = want
          /\ Len(CsvRead(line)) = 5
          /\ IsPlainRecord(last.user_data) => SplitComma(line) = want
          /\ (last.via = "driver" /\ run.state = "ended" /\ run.outcome = "ok")
               => /\ last.user_data = run.found
                  /\ run.found.username = run.username

\* a run of the driver has written the record it found, after the clock
\* has moved on
C10_Witness ==
  /\ last.outcome = "ok"
  /\ last.via = "driver"
  /\ run.outcome = "ok"
  /\ last.ticks = MaxTicks
  /\ IsPlainRecord(last.user_data)

(***************************************************************************)
(* Properties of a run of record_folding_at_home_stats.                    *)
(***************************************************************************)
\* C7: a run that ends has either added exactly one data row after the
\* content it found, or left the destination as it was; and the destination
\* changes within a run only in the step that follows a located record.
C7_RunEnds == run'.state = "ended" /\ run' # run

C7_AllOrNothing ==
  [][ /\ C7_RunEnds =>
           IF run'.outcome = "ok"
           THEN /\ IsPrefix(run'.start_fs.content, fs'.content)
                /\ Len(DataRows(FileLines(fs'.content)))
                     = Len(DataRows(FileLines(run'.start_fs.content))) + 1
                /\ LastOf(FileLines(fs'.content))
                     = csv_join(RowValues(now, run'.found))
           ELSE fs' = run'.start_fs
      /\ (fs' # fs /\ pc # "idle")
           => /\ pc = "record"
              /\ run.found # NoRecord
              /\ target_user_data = run.found ]_vars

\* a run has ended well on a file that held rows already
C7_Witness ==
  /\ run.state = "ended"
  /\ run.outcome = "ok"
  /\ run.start_fs.content # <<>>
  /\ last.via = "driver"

\* C8: a run against a path that does not exist, in a writable directory,
\* with a username given, passes the validation of record_location; and
\* when the user is found the file is created with the header and one row.
C8_CreatesFile ==
  (/\ run.state = "ended"
   /\ run.start_fs.kind = "absent"
   /\ run.start_fs.parent_ok
   /\ run.username # <<>>)
    => /\ run.outcome # "BadParameter:record_location"
       /\ (run.found # NoRecord)
            => /\ run.outcome = "ok"
               /\ last.via = "driver"
                    => /\ Len(FileLines(fs.content)) >= 2
                       /\ FileLines(fs.content)[1] = HeaderText

(***************************************************************************)
(* Properties of find_specific_user_data.                                  *)
(***************************************************************************)
\* the first whitespace-delimited token of a line, if it has one
StartsWith(line, target) ==
  LET tokens == split(line) IN tokens # <<>> /\ tokens[1] = target

\* the places in lines[2:] whose first token is the target
Matches(rows, target) == {i \in 3..Len(rows) : StartsWith(rows[i], target)}

FirstMatch(rows, target) == Least(Matches(rows, target))

Called == find_result.kind # "pending"

\* C4: when some line of lines[2:] has the target as its first token, the
\* result is the Record of the four tokens of the first such line, and its
\* username is the target.  (Read for first matching lines of four tokens:
\* no Record of four fields holds the tokens of any other line.)
C4_FindsFirstMatch ==
  (/\ Called
   /\ Matches(user_data_rows, target_name) # {}
   /\ Len(split(user_data_rows[FirstMatch(user_data_rows, target_name)])) = 4)
    => LET tokens == split(user_data_rows[FirstMatch(user_data_rows, target_name)])
       IN /\ find_result.kind = "ok"
          /\ find_result.value =
               [username |-> tokens[1], new_credits |-> tokens[2],
                sum_workunits |-> tokens[3], team_num |-> tokens[4]]
          /\ find_result.value.username = target_name

\* C5: when no line of lines[2:] has the target as its first token, blank
\* lines and lines of any token count included, the call fails with the
\* not-found error and nothing else.
C5_NotFound ==
  (Called /\ Matches(user_data_rows, target_name) = {})
    => find_result.kind = "BadParameter"

\* C6: the outcome does not depend on lines[0] and lines[1]; a dataset
\* whose first or second line starts with the target while lines[2:] do not
\* hold it ends in the not-found error; so does one of fewer than three
\* lines.
C6_SkipsTwoLines ==
  Called
    => /\ \A a, b \in DatasetLines :
            Len(user_data_rows) >= 2
              => find_result =
                   find_specific_user_data(
                     <<a, b>> \o SubSeq(user_data_rows, 3, Len(user_data_rows)),
                     target_name)
       /\ (/\ \E i \in 1..2 : /\ i <= Len(user_data_rows)
                              /\ StartsWith(user_data_rows[i], target_name)
           /\ Matches(user_data_rows, target_name) = {})
            => find_result.kind = "BadParameter"
       /\ Len(user_data_rows) < 3 => find_result.kind = "BadParameter"

====
